---- MODULE Spec2Model ----
(***************************************************************************)
(* A model of mongorph's MonGod (src/src/lib.rs): the tokenizer, the       *)
(* recursive-descent parser (parse_tokens, parse_match, parse_condition,   *)
(* parse_logical_op) and the stored ast.                                   *)
(*                                                                         *)
(* A source string is a sequence of one-character strings.  The tokenizer  *)
(* is stepped one iteration of its `while let` loop at a time; the parser  *)
(* is stepped from call to call and from return to return, its Rust call   *)
(* stack kept as an explicit stack of frames.                              *)
(***************************************************************************)
EXTENDS Naturals, Sequences, FiniteSets, TLC

VARIABLES
    s,       \* MonGod.s, the source handed to new() (<<>> for a direct parse_tokens call)
    ci,      \* tokenize: how many characters the `chars` iterator has yielded
    idx,     \* tokenize: the running offset `idx`
    tokens,  \* tokenize: `tokens` while lexing; then the argument of parse_tokens
    pos,     \* parser: how many tokens `iter` has yielded
    stack,   \* parser: the frames of the calls waiting for a callee
    ret,     \* parser: the Result the callee returned (read when pc = "return")
    nodes,   \* parse_tokens: the local `nodes`
    ast,     \* MonGod.ast
    result,  \* what the last finished build/parse_tokens call returned
    pc,      \* the statement about to run
    calls    \* how many build/parse_tokens calls were started on this MonGod

vars == <<s, ci, idx, tokens, pos, stack, ret, nodes, ast, result, pc, calls>>

----------------------------------------------------------------------------
(* Bounds of the model *)

\* the longest source string enumerated exhaustively (SpecLex)
MaxSrcLen == 4
\* the longest token sequence enumerated exhaustively (Spec)
MaxTokLen == 4
\* the most sibling comparisons under one generated logical group
MaxSiblings == 2
\* the most calls made on one MonGod
MaxCalls == 2

----------------------------------------------------------------------------
(* Values: Option, Result, TokenT, Token, ASTNode *)

None == [k |-> "None"]

TLiteral(name) == [k |-> "Literal", v |-> name]
TNumber(num) == [k |-> "Number", v |-> num]
TComparator(cmp) == [k |-> "Comparator", v |-> cmp]
TConditionalOperator(op) == [k |-> "ConditionalOperator", v |-> op]
TOpenParen == [k |-> "OpenParen"]
TCloseParen == [k |-> "CloseParen"]
TDot == [k |-> "Dot"]
TMatch == [k |-> "Match"]

Token(ty, i) == [ty |-> ty, idx |-> i]

Comparator == {"GTE", "GT", "EQ", "NEQ", "LT", "LTE"}
ConditionalOperator == {"AND", "OR"}

Literal(name) == [n |-> "Literal", name |-> name]
Number(num) == [n |-> "Number", value |-> num]
\* a Condition built with its operands exchanged
ConditionSwapped(op, left, right) ==
    [n |-> "Condition", op |-> op, left |-> right, right |-> left]
Condition(op, left, right) ==
    [n |-> "Condition", op |-> op, left |-> left, right |-> right]
LogicalGroup(op, conditions) ==
    [n |-> "ConditionalOperator", op |-> op, conditions |-> conditions]
Match(inner) == [n |-> "Match", inner |-> inner]

Ok(node) == [ok |-> TRUE, node |-> node]
Err(ty, cursor) == [ok |-> FALSE, ty |-> ty, cursor |-> cursor]
\* Ok(()) of build and parse_tokens
OkUnit == [ok |-> TRUE]
\* no call has returned yet
NoResult == [k |-> "None"]

----------------------------------------------------------------------------
(* tokenize *)

Whitespace == {" ", "\t", "\n"}
AsciiLetters == {"a", "b", "c", "d", "e", "h", "m", "n", "r", "t",
                 "A", "C", "E", "I", "L", "M", "S"}
Digits == {"0", "1", "2", "3"}
IdentStart == AsciiLetters \cup {"_"}

\* c1.is_alphanumeric() || c1 == '_' || c1 == '.'
IsIdentChar(c) == c \in AsciiLetters \cup Digits \cup {"_", "."}
\* c1.is_numeric() || c1 == '.'
IsNumberChar(c) == c \in Digits \cup {"."}

\* the inner `while let Some(&c1) = chars.peek()` loops: the number of
\* characters yielded once the loop breaks, started with i yielded
RECURSIVE ScanIdent(_, _)
ScanIdent(src, i) ==
    IF i < Len(src) /\ IsIdentChar(src[i + 1]) THEN ScanIdent(src, i + 1) ELSE i

RECURSIVE ScanNumber(_, _)
ScanNumber(src, i) ==
    IF i < Len(src) /\ IsNumberChar(src[i + 1]) THEN ScanNumber(src, i + 1) ELSE i

RECURSIVE StripLeadingZeros(_)
StripLeadingZeros(d) ==
    IF d # <<>> /\ Head(d) = "0" THEN StripLeadingZeros(Tail(d)) ELSE d

RECURSIVE StripTrailingZeros(_)
StripTrailingZeros(d) ==
    IF d # <<>> /\ d[Len(d)] = "0"
    THEN StripTrailingZeros(SubSeq(d, 1, Len(d) - 1)) ELSE d

DotsOf(lexeme) == {i \in 1..Len(lexeme) : lexeme[i] = "."}

\* number.parse::<f64>() of a lexeme of digits and dots that starts with a
\* digit: Err with more than one dot; otherwise the value, written as its
\* integer digits without leading zeros and its fraction digits without
\* trailing zeros (so "1", "1." and "1.0" are the same f64, "1.1" another)
ParseF64(lexeme) ==
    IF Cardinality(DotsOf(lexeme)) > 1 THEN [ok |-> FALSE]
    ELSE LET d == IF DotsOf(lexeme) = {} THEN Len(lexeme) + 1
                  ELSE CHOOSE i \in DotsOf(lexeme) : TRUE
         IN  [ok |-> TRUE,
              value |-> [int |-> StripLeadingZeros(SubSeq(lexeme, 1, d - 1)),
                         frac |-> StripTrailingZeros(SubSeq(lexeme, d + 1, Len(lexeme)))]]

KwMatch == <<"m", "a", "t", "c", "h">>

\* chars.peek() == Some(&'=') after the first character was taken
NextIsEq(src, i) == i + 1 < Len(src) /\ src[i + 2] = "="

\* One iteration of the `while let Some(&c) = chars.peek()` loop, with i
\* characters yielded and the offset at x: the characters yielded and the
\* offset afterwards, the token pushed (None when none is) and whether
\* the iteration panics.
LexStep(src, i, x) ==
    LET c == src[i + 1]
        out(i2, x2, tok) == [ci |-> i2, idx |-> x2, tok |-> tok, panic |-> FALSE]
        panic == [ci |-> i, idx |-> x, tok |-> None, panic |-> TRUE]
    IN  CASE c \in Whitespace -> out(i + 1, x + 1, None)
          [] c = ">" ->
                IF NextIsEq(src, i)
                THEN out(i + 2, x + 2, Token(TComparator("GTE"), x))
                ELSE out(i + 1, x + 1, Token(TComparator("GT"), x))
          [] c = "<" ->
                IF NextIsEq(src, i)
                THEN out(i + 2, x + 2, Token(TComparator("LTE"), x))
                ELSE out(i + 1, x + 1, Token(TComparator("LT"), x))
          [] c = "=" ->
                IF NextIsEq(src, i)
                THEN out(i + 2, x + 2, Token(TComparator("EQ"), x))
                ELSE out(i + 1, x, None)
          [] c = "!" ->
                IF NextIsEq(src, i)
                THEN out(i + 2, x + 2, Token(TComparator("NEQ"), x))
                ELSE out(i + 1, x, None)
          [] c = "&" -> out(i + 1, x + 1, Token(TConditionalOperator("AND"), x))
          [] c = "|" -> out(i + 1, x + 1, Token(TConditionalOperator("OR"), x))
          [] c = "(" -> out(i + 1, x + 1, Token(TOpenParen, x))
          [] c = ")" -> out(i + 1, x + 1, Token(TCloseParen, x))
          [] c = "." -> out(i + 1, x + 1, Token(TDot, x))
          [] c \in IdentStart ->
                LET e == ScanIdent(src, i)
                    literal == SubSeq(src, i + 1, e)
                IN  IF literal = KwMatch
                    THEN out(e, x + 5, Token(TMatch, x))
                    ELSE out(e, x + Len(literal), Token(TLiteral(literal), x))
          [] c \in Digits ->
                LET e == ScanNumber(src, i)
                    number == SubSeq(src, i + 1, e)
                    parsed == ParseF64(number)
                IN  IF parsed.ok
                    THEN out(e, x + Len(number), Token(TNumber(parsed.value), x))
                    ELSE panic
          [] OTHER -> panic

\* build(), lines 99-100, and tokenize's loop: one iteration, or, the source
\* exhausted, the call of parse_tokens on the tokens
tokenize ==
    /\ pc = "tokenize"
    /\ IF ci = Len(s)
       THEN /\ pc' = "parse_tokens"
            /\ pos' = 0
            /\ nodes' = <<>>
            /\ UNCHANGED <<ci, idx, tokens>>
       ELSE LET r == LexStep(s, ci, idx)
            IN  /\ ci' = r.ci
                /\ idx' = r.idx
                /\ tokens' = IF r.tok = None THEN tokens ELSE Append(tokens, r.tok)
                /\ pc' = IF r.panic THEN "panic" ELSE "tokenize"
                /\ UNCHANGED <<pos, nodes>>
    /\ UNCHANGED <<s, stack, ret, ast, result, calls>>

----------------------------------------------------------------------------
(* The parser: iter is tokens with pos of them yielded *)

\* the kind of iter.peek_nth(k): "None" past the end
PeekKind(k) == IF pos + k < Len(tokens) THEN tokens[pos + k + 1].ty.k ELSE "None"
\* the token iter.peek_nth(k) holds, when there is one
PeekTok(k) == tokens[pos + k + 1]

Top == stack[Len(stack)]
Pop == SubSeq(stack, 1, Len(stack) - 1)

\* the error reported with the placeholder cursor of the other error paths
TopLevelUnexpectedAtZero(t) == Err("Unexpected", 0)

\* parse_tokens, line 389: the error for a token other than Match at top level
TopLevelUnexpected(t) == Err("Unexpected", t.idx)

\* parse_tokens, lines 392-393: self.ast = nodes; Ok(())
ReturnOk ==
    /\ ast' = nodes
    /\ result' = OkUnit
    /\ pc' = "done"

\* an error return that stores the statements parsed so far
ReturnErrPartial(e) ==
    /\ ast' = nodes
    /\ result' = e
    /\ pc' = "done"

\* an error that is dropped, the loop going on where it stands
ReturnErrIgnored(e) == UNCHANGED <<ast, result, pc>>

\* parse_tokens, lines 386 and 389: return Err(e), self.ast not assigned
ReturnErr(e) ==
    /\ ast' = ast
    /\ result' = e
    /\ pc' = "done"

\* parse_tokens, lines 381-391: the head of the `while let Some(t) = iter.peek()` loop
parse_tokens ==
    /\ pc = "parse_tokens"
    /\ CASE PeekKind(0) = "None" -> ReturnOk
         [] PeekKind(0) = "Match" -> /\ pc' = "parse_match"
                                     /\ UNCHANGED <<ast, result>>
         [] OTHER -> ReturnErr(TopLevelUnexpected(PeekTok(0)))
    /\ UNCHANGED <<s, ci, idx, tokens, pos, stack, ret, nodes, calls>>

\* parse_match, lines 349-356 and 370-374: up to the call of parse_condition
parse_match ==
    /\ pc = "parse_match"
    /\ CASE PeekKind(0) = "Match" /\ PeekKind(1) = "OpenParen" ->
              /\ pos' = pos + 2
              /\ stack' = Append(stack, [fn |-> "parse_match"])
              /\ pc' = "parse_condition"
              /\ ret' = ret
         [] PeekKind(0) = "Match" /\ PeekKind(1) # "OpenParen" ->
              /\ pos' = IF PeekKind(1) = "None" THEN pos + 1 ELSE pos + 2
              /\ ret' = Err("MissingOpenParen", PeekTok(0).idx)
              /\ pc' = "return"
              /\ stack' = stack
         [] PeekKind(0) = "None" ->
              /\ ret' = Err("EndOfTokenStream", 0)
              /\ pc' = "return"
              /\ UNCHANGED <<pos, stack>>
         [] OTHER ->
              /\ pos' = pos + 1
              /\ ret' = Err("Unexpected", PeekTok(0).idx)
              /\ pc' = "return"
              /\ stack' = stack
    /\ UNCHANGED <<s, ci, idx, tokens, nodes, ast, result, calls>>

\* parse_condition, lines 225-253 and 284-287: the dispatch on iter.peek(), up
\* to the first call or return
parse_condition ==
    /\ pc = "parse_condition"
    /\ CASE PeekKind(0) = "ConditionalOperator" ->
              \* the result of parse_logical_op is returned as it is
              /\ pc' = "parse_logical_op"
              /\ UNCHANGED <<pos, stack, ret>>
         [] PeekKind(0) = "Literal" ->
              /\ pos' = pos + 1
              /\ ret' = Ok(Literal(PeekTok(0).ty.v))
              /\ pc' = "return"
              /\ stack' = stack
         [] PeekKind(0) = "Number" ->
              /\ pos' = pos + 1
              /\ ret' = Ok(Number(PeekTok(0).ty.v))
              /\ pc' = "return"
              /\ stack' = stack
         [] PeekKind(0) = "OpenParen" ->
              /\ pos' = pos + 1
              /\ stack' = Append(stack, [fn |-> "parse_condition", at |-> "left"])
              /\ pc' = "parse_condition"
              /\ ret' = ret
         [] OTHER ->
              /\ ret' = Err("Unexpected", 0)
              /\ pc' = "return"
              /\ UNCHANGED <<pos, stack>>
    /\ UNCHANGED <<s, ci, idx, tokens, nodes, ast, result, calls>>

\* parse_condition, lines 253-259: `left` is back; the comparator is taken
parse_condition_left ==
    /\ pc = "return"
    /\ stack # <<>>
    /\ Top.fn = "parse_condition"
    /\ Top.at = "left"
    /\ IF ~ret.ok
       THEN \* the `?` of line 253
            /\ stack' = Pop
            /\ UNCHANGED <<pos, ret, pc>>
       ELSE CASE PeekKind(0) = "Comparator" ->
                   /\ pos' = pos + 1
                   /\ stack' = Append(Pop, [fn |-> "parse_condition", at |-> "right",
                                            op |-> PeekTok(0).ty.v, left |-> ret.node])
                   /\ pc' = "parse_condition"
                   /\ ret' = ret
              [] PeekKind(0) = "None" ->
                   /\ ret' = Err("EndOfTokenStream", 0)
                   /\ stack' = Pop
                   /\ UNCHANGED <<pos, pc>>
              [] OTHER ->
                   /\ pos' = pos + 1
                   /\ ret' = Err("MissingComparator", PeekTok(0).idx)
                   /\ stack' = Pop
                   /\ pc' = pc
    /\ UNCHANGED <<s, ci, idx, tokens, nodes, ast, result, calls>>

\* parse_condition, lines 262-281: `right` is back; the closing parenthesis
parse_condition_right ==
    /\ pc = "return"
    /\ stack # <<>>
    /\ Top.fn = "parse_condition"
    /\ Top.at = "right"
    /\ stack' = Pop
    /\ pc' = pc
    /\ IF ~ret.ok
       THEN \* the `?` of line 262
            UNCHANGED <<pos, ret>>
       ELSE CASE PeekKind(0) = "CloseParen" ->
                   /\ pos' = pos + 1
                   /\ ret' = Ok(Condition(Top.op, Top.left, ret.node))
              [] PeekKind(0) = "None" ->
                   /\ ret' = Err("EndOfTokenStream", 0)
                   /\ pos' = pos
              [] OTHER ->
                   /\ pos' = pos + 1
                   /\ ret' = Err("UnmatchedParenthesis", PeekTok(0).idx)
    /\ UNCHANGED <<s, ci, idx, tokens, nodes, ast, result, calls>>

\* parse_logical_op, lines 297-307: the operator and its open parenthesis
parse_logical_op ==
    /\ pc = "parse_logical_op"
    /\ CASE PeekKind(0) # "ConditionalOperator" ->
              \* panic!("expected conditional operator")
              /\ pc' = "panic"
              /\ pos' = IF PeekKind(0) = "None" THEN pos ELSE pos + 1
              /\ UNCHANGED <<stack, ret>>
         [] PeekKind(0) = "ConditionalOperator" /\ PeekKind(1) = "OpenParen" ->
              /\ pos' = pos + 2
              /\ stack' = Append(stack, [fn |-> "parse_logical_op",
                                         op |-> PeekTok(0).ty.v, conditions |-> <<>>])
              /\ pc' = "parse_condition"
              /\ ret' = ret
         [] PeekKind(0) = "ConditionalOperator" /\ PeekKind(1) = "None" ->
              /\ pos' = pos + 1
              /\ ret' = Err("EndOfTokenStream", 0)
              /\ pc' = "return"
              /\ stack' = stack
         [] OTHER ->
              /\ pos' = pos + 2
              /\ ret' = Err("MissingOpenParen", PeekTok(1).idx)
              /\ pc' = "return"
              /\ stack' = stack
    /\ UNCHANGED <<s, ci, idx, tokens, nodes, ast, result, calls>>

\* the peeked open parenthesis taken whatever follows it
SkipsOpenParenAlways == TRUE

\* parse_logical_op, line 321-323: whether the open parenthesis peeked after a
\* condition is taken before the next condition is parsed
SkipsOpenParen == PeekKind(1) = "ConditionalOperator"

\* parse_logical_op, lines 310-340: a condition is back; one turn of the loop
parse_logical_op_loop ==
    /\ pc = "return"
    /\ stack # <<>>
    /\ Top.fn = "parse_logical_op"
    /\ IF ~ret.ok
       THEN \* the `?` of line 310
            /\ stack' = Pop
            /\ UNCHANGED <<pos, ret, pc>>
       ELSE LET conditions == Append(Top.conditions, ret.node)
            IN  CASE PeekKind(0) = "CloseParen" ->
                       /\ pos' = pos + 1
                       /\ ret' = Ok(LogicalGroup(Top.op, conditions))
                       /\ stack' = Pop
                       /\ pc' = pc
                  [] PeekKind(0) = "OpenParen" ->
                       /\ pos' = IF SkipsOpenParen THEN pos + 1 ELSE pos
                       /\ stack' = Append(Pop, [Top EXCEPT !.conditions = conditions])
                       /\ pc' = "parse_condition"
                       /\ ret' = ret
                  [] PeekKind(0) = "None" ->
                       /\ ret' = Err("EndOfTokenStream", 0)
                       /\ stack' = Pop
                       /\ UNCHANGED <<pos, pc>>
                  [] OTHER ->
                       /\ ret' = Err("Unexpected", PeekTok(0).idx)
                       /\ stack' = Pop
                       /\ UNCHANGED <<pos, pc>>
    /\ UNCHANGED <<s, ci, idx, tokens, nodes, ast, result, calls>>

\* parse_match, lines 358-368: the result, from the condition and the token
\* peeked after it
MatchClose(cond) ==
    CASE PeekKind(0) = "CloseParen" -> Ok(Match(cond))
      [] PeekKind(0) = "None" -> Err("EndOfTokenStream", 0)
      [] OTHER -> Err("UnmatchedParenthesis", PeekTok(0).idx)

\* parse_match, lines 356-368: the condition is back; the closing parenthesis
parse_match_close ==
    /\ pc = "return"
    /\ stack # <<>>
    /\ Top.fn = "parse_match"
    /\ stack' = Pop
    /\ pc' = pc
    /\ IF ~ret.ok
       THEN \* the `?` of line 356
            UNCHANGED <<pos, ret>>
       ELSE /\ ret' = MatchClose(ret.node)
            \* iter.next() of line 360
            /\ pos' = IF PeekKind(0) = "CloseParen" THEN pos + 1 ELSE pos
    /\ UNCHANGED <<s, ci, idx, tokens, nodes, ast, result, calls>>

\* parse_tokens, lines 384-387: parse_match is back
parse_tokens_match ==
    /\ pc = "return"
    /\ stack = <<>>
    /\ IF ret.ok
       THEN /\ nodes' = Append(nodes, ret.node)
            /\ pc' = "parse_tokens"
            /\ UNCHANGED <<ast, result>>
       ELSE /\ ReturnErr(ret)
            /\ nodes' = nodes
    /\ UNCHANGED <<s, ci, idx, tokens, pos, stack, ret, calls>>

----------------------------------------------------------------------------
(* The inputs: sources for build, token vectors for parse_tokens *)

\* src/src/main.rs line 35: match(|((branch == ECE)(&((branch == CSE)(branch == AIML))))
ProgMain ==
    <<"m", "a", "t", "c", "h", "(", "|", "(", "(", "b", "r", "a", "n", "c", "h", " ",
      "=", "=", " ", "E", "C", "E", ")", "(", "&", "(", "(", "b", "r", "a", "n", "c",
      "h", " ", "=", "=", " ", "C", "S", "E", ")", "(", "b", "r", "a", "n", "c", "h",
      " ", "=", "=", " ", "A", "I", "M", "L", ")", ")", ")", ")">>
\* a comparison outside any match(...): branch == CSE
ProgBare ==
    <<"b", "r", "a", "n", "c", "h", " ", "=", "=", " ", "C", "S", "E">>
\* an unbracketed comparison: match(branch == CSE)
ProgPlain ==
    <<"m", "a", "t", "c", "h", "(", "b", "r", "a", "n", "c", "h", " ", "=", "=", " ",
      "C", "S", "E", ")">>
\* a bracketed nested group as the first sibling, brackets balanced: match(&((&((a==1)(b==2)))(c==3)))
ProgNestedFirst ==
    <<"m", "a", "t", "c", "h", "(", "&", "(", "(", "&", "(", "(", "a", "=", "=", "1",
      ")", "(", "b", "=", "=", "2", ")", ")", ")", "(", "c", "=", "=", "3", ")", ")",
      ")">>
\* a bracketed nested group as the last sibling, brackets balanced: match(&((c==3)(&((a==1)(b==2)))))
ProgNestedLast ==
    <<"m", "a", "t", "c", "h", "(", "&", "(", "(", "c", "=", "=", "3", ")", "(", "&",
      "(", "(", "a", "=", "=", "1", ")", "(", "b", "=", "=", "2", ")", ")", ")", ")",
      ")">>
\* the same with the last closing parenthesis left out: match(&((c==3)(&((a==1)(b==2))))
ProgNestedLastOpen ==
    <<"m", "a", "t", "c", "h", "(", "&", "(", "(", "c", "=", "=", "3", ")", "(", "&",
      "(", "(", "a", "=", "=", "1", ")", "(", "b", "=", "=", "2", ")", ")", ")", ")">>
\* two bracketed nested groups, brackets balanced: match(|((&((a==1)))(&((b==2)))))
ProgOrOfAnds ==
    <<"m", "a", "t", "c", "h", "(", "|", "(", "(", "&", "(", "(", "a", "=", "=", "1",
      ")", ")", ")", "(", "&", "(", "(", "b", "=", "=", "2", ")", ")", ")", ")", ")">>
\* two statements on two lines: match((a >= 1.0))\nmatch((b != c))
ProgTwo ==
    <<"m", "a", "t", "c", "h", "(", "(", "a", " ", ">", "=", " ", "1", ".", "0", ")",
      ")", "\n", "m", "a", "t", "c", "h", "(", "(", "b", " ", "!", "=", " ", "c", ")",
      ")">>
\* a closing parenthesis after a complete statement: match((a<2)))
ProgTrailing ==
    <<"m", "a", "t", "c", "h", "(", "(", "a", "<", "2", ")", ")", ")">>
\* a lone = in front of a comparator: match((a =< 10))
ProgLoneEq ==
    <<"m", "a", "t", "c", "h", "(", "(", "a", " ", "=", "<", " ", "1", "0", ")", ")">>

Programs == {ProgMain, ProgBare, ProgPlain, ProgNestedFirst, ProgNestedLast,
             ProgNestedLastOpen, ProgOrOfAnds, ProgTwo, ProgTrailing, ProgLoneEq}

\* the characters of the exhaustively enumerated sources
SrcAlphabet == {" ", ">", "<", "=", "!", "&", "|", "(", ")", ".", "a", "1", "#"}

SeqsUpTo(S, n) == UNION {[1..m -> S] : m \in 0..n}

SrcStrings == SeqsUpTo(SrcAlphabet, MaxSrcLen)

One == [int |-> <<"1">>, frac |-> <<>>]
IdA == <<"a">>
IdB == <<"b">>

\* the token kinds of the exhaustively enumerated token vectors
TokAlphabet == {TMatch, TOpenParen, TCloseParen, TDot, TLiteral(IdA), TNumber(One),
                TComparator("EQ"), TConditionalOperator("AND")}

\* the number of characters of a token's lexeme
Width(ty) ==
    CASE ty.k = "Match" -> 5
      [] ty.k = "Literal" -> Len(ty.v)
      [] ty.k = "Number" ->
            Len(ty.v.int) + (IF ty.v.frac = <<>> THEN 0 ELSE 1 + Len(ty.v.frac))
      [] ty.k = "Comparator" -> IF ty.v \in {"GT", "LT"} THEN 1 ELSE 2
      [] OTHER -> 1

RECURSIVE OffsetOf(_, _)
OffsetOf(tys, i) ==
    IF i = 1 THEN 0 ELSE OffsetOf(tys, i - 1) + Width(tys[i - 1]) + 1

\* the token vector of the kinds tys, each token at the offset tokenize gives
\* it when the lexemes are written with one space between them
Layout(tys) == [i \in 1..Len(tys) |-> Token(tys[i], OffsetOf(tys, i))]

RECURSIVE Flatten(_)
Flatten(ss) == IF ss = <<>> THEN <<>> ELSE Head(ss) \o Flatten(Tail(ss))

DropLast(t) == SubSeq(t, 1, Len(t) - 1)

Operands == {TLiteral(IdA), TLiteral(IdB), TNumber(One)}
\* IDENT CMP IDENT and IDENT CMP NUMBER
PlainComparisons ==
    {<<TLiteral(l), TComparator(c), r>> : l \in {IdA, IdB}, c \in Comparator, r \in Operands}
Bracketed(body) == <<TOpenParen>> \o body \o <<TCloseParen>>
MatchOf(body) == <<TMatch, TOpenParen>> \o body \o <<TCloseParen>>

\* match(IDENT CMP X)
PlainMatches == {MatchOf(c) : c \in PlainComparisons}
\* match((IDENT CMP X))
BracketedMatches == {MatchOf(Bracketed(c)) : c \in PlainComparisons}

\* the comparisons the generated logical groups are made of
SiblingPool == {Bracketed(<<TLiteral(IdA), TComparator("EQ"), TNumber(One)>>),
                Bracketed(<<TLiteral(IdB), TComparator("GTE"), TLiteral(IdA)>>)}
GroupOf(op, siblings) ==
    <<TConditionalOperator(op), TOpenParen>> \o Flatten(siblings) \o <<TCloseParen>>
\* match(OP((..)(..)...)), 1..MaxSiblings bracketed comparisons juxtaposed
FlatGroupMatches ==
    {MatchOf(GroupOf(op, f)) :
        op \in ConditionalOperator, f \in UNION {[1..m -> SiblingPool] : m \in 1..MaxSiblings}}

\* a statement without its last closing parenthesis, or without its last two
MissingCloses ==
    {DropLast(t) : t \in PlainMatches \cup BracketedMatches \cup FlatGroupMatches}
        \cup {DropLast(DropLast(t)) : t \in BracketedMatches}

\* every short token vector, and every short one after `match (`
ShortTokenVectors ==
    SeqsUpTo(TokAlphabet, MaxTokLen)
        \cup {<<TMatch, TOpenParen>> \o t : t \in SeqsUpTo(TokAlphabet, MaxTokLen)}

\* the arguments of the first parse_tokens call
TokenInputs ==
    {Layout(t) : t \in ShortTokenVectors \cup PlainMatches \cup BracketedMatches
                          \cup FlatGroupMatches \cup MissingCloses}

\* the arguments of the later parse_tokens calls
LaterInputs ==
    {Layout(t) : t \in {<<>>,
                        <<TLiteral(IdA)>>,
                        MatchOf(<<TLiteral(IdA)>>),
                        MatchOf(Bracketed(<<TLiteral(IdA), TComparator("LT"), TNumber(One)>>)),
                        DropLast(MatchOf(Bracketed(<<TLiteral(IdB), TComparator("NEQ"), TLiteral(IdA)>>))),
                        MatchOf(Bracketed(<<TLiteral(IdB), TComparator("NEQ"), TLiteral(IdA)>>))
                            \o MatchOf(Bracketed(<<TLiteral(IdA), TComparator("GT"), TNumber(One)>>)),
                        MatchOf(Bracketed(<<TLiteral(IdA), TComparator("GT"), TNumber(One)>>))
                            \o <<TCloseParen>>}}

----------------------------------------------------------------------------
(* The calls *)

\* MonGod::new(s), lines 91-96, for the source src
New(src) ==
    /\ s = src
    /\ ast = <<>>
    /\ ci = 0
    /\ idx = 0
    /\ tokens = <<>>
    /\ pos = 0
    /\ stack = <<>>
    /\ ret = NoResult
    /\ nodes = <<>>
    /\ result = NoResult
    /\ pc = "new"
    /\ calls = 0

Init == \E src \in Programs \cup {<<>>} : New(src)

InitLex == \E src \in Programs \cup SrcStrings : New(src)

\* build(), line 98: a call of build on the MonGod
build ==
    /\ pc \in {"new", "done"}
    /\ calls < MaxCalls
    /\ calls' = calls + 1
    /\ pc' = "tokenize"
    /\ ci' = 0
    /\ idx' = 0
    /\ tokens' = <<>>
    /\ pos' = 0
    /\ stack' = <<>>
    /\ ret' = NoResult
    /\ nodes' = <<>>
    /\ result' = NoResult
    /\ UNCHANGED <<s, ast>>

\* parse_tokens(&tokens), lines 378-380: a call with the token vector t
ParseTokensCall(t) ==
    /\ calls' = calls + 1
    /\ pc' = "parse_tokens"
    /\ ci' = 0
    /\ idx' = 0
    /\ tokens' = t
    /\ pos' = 0
    /\ stack' = <<>>
    /\ ret' = NoResult
    /\ nodes' = <<>>
    /\ result' = NoResult
    /\ UNCHANGED <<s, ast>>

\* the first call on a MonGod made of the empty source
parse_tokens_first ==
    /\ pc = "new"
    /\ s = <<>>
    /\ \E t \in TokenInputs : ParseTokensCall(t)

\* a later call
parse_tokens_later ==
    /\ pc = "done"
    /\ calls < MaxCalls
    /\ \E t \in LaterInputs : ParseTokensCall(t)

Next ==
    \/ build
    \/ parse_tokens_first
    \/ parse_tokens_later
    \/ tokenize
    \/ parse_tokens
    \/ parse_match
    \/ parse_condition
    \/ parse_condition_left
    \/ parse_condition_right
    \/ parse_logical_op
    \/ parse_logical_op_loop
    \/ parse_match_close
    \/ parse_tokens_match

Spec == Init /\ [][Next]_vars

SpecLex == InitLex /\ [][Next]_vars

\* the steps of a call under way: a call, once made, runs to its return
Step ==
    \/ tokenize
    \/ parse_tokens
    \/ parse_match
    \/ parse_condition
    \/ parse_condition_left
    \/ parse_condition_right
    \/ parse_logical_op
    \/ parse_logical_op_loop
    \/ parse_match_close
    \/ parse_tokens_match

\* Spec with the single thread of a call never stopping before the call returns
SpecFair == Init /\ [][Next]_vars /\ WF_vars(Step)

----------------------------------------------------------------------------
(* What the properties below are written with *)

\* a call has returned
Returned == pc = "done"
\* this step is the return of a call
Returns == pc # "done" /\ pc' = "done"

Kind(t, i) == t[i].ty.k
CountKind(t, k) == Cardinality({i \in DOMAIN t : Kind(t, i) = k})
TysOf(t) == [i \in DOMAIN t |-> t[i].ty]
IsOperand(t, i) == Kind(t, i) \in {"Literal", "Number"}

\* the node a Literal or Number token stands for
LeafOf(tok) ==
    IF tok.ty.k = "Literal" THEN [n |-> "Literal", name |-> tok.ty.v]
    ELSE [n |-> "Number", value |-> tok.ty.v]

\* t[i], t[i+1], t[i+2] are IDENT CMP IDENT or IDENT CMP NUMBER
IsComparisonAt(t, i) ==
    /\ i + 2 <= Len(t)
    /\ Kind(t, i) = "Literal"
    /\ Kind(t, i + 1) = "Comparator"
    /\ IsOperand(t, i + 2)

\* the Condition node of the comparison at t[i]
ComparisonAt(t, i) ==
    [n |-> "Condition", op |-> t[i + 1].ty.v,
     left |-> [n |-> "Literal", name |-> t[i].ty.v], right |-> LeafOf(t[i + 2])]

\* match ( IDENT CMP X )
IsPlainMatch(t) ==
    /\ Len(t) = 6
    /\ Kind(t, 1) = "Match"
    /\ Kind(t, 2) = "OpenParen"
    /\ IsComparisonAt(t, 3)
    /\ Kind(t, 6) = "CloseParen"

\* match ( ( IDENT CMP X ) )
IsBracketedMatch(t) ==
    /\ Len(t) = 8
    /\ Kind(t, 1) = "Match"
    /\ Kind(t, 2) = "OpenParen"
    /\ Kind(t, 3) = "OpenParen"
    /\ IsComparisonAt(t, 4)
    /\ Kind(t, 7) = "CloseParen"
    /\ Kind(t, 8) = "CloseParen"

\* C1, as claimed: every input match(IDENT CMP IDENT) or match(IDENT CMP NUMBER)
\* parses, and ast is the one Match node of the Condition with the input's
\* operator, left identifier and right value.
C1_PlainComparisonParses ==
    Returned /\ IsPlainMatch(tokens) =>
        /\ result = OkUnit
        /\ ast = <<[n |-> "Match", inner |-> ComparisonAt(tokens, 3)]>>

\* C1, amended: every input match((IDENT CMP IDENT)) or match((IDENT CMP NUMBER)),
\* the comparison in parentheses of its own, parses, and ast is the one Match
\* node of the Condition with the input's operator, left identifier and right
\* value.
C1_BracketedComparisonParses ==
    Returned /\ IsBracketedMatch(tokens) =>
        /\ result = OkUnit
        /\ ast = <<[n |-> "Match", inner |-> ComparisonAt(tokens, 4)]>>

C1_Witness ==
    /\ Returned
    /\ IsBracketedMatch(tokens)
    /\ result = OkUnit
    /\ tokens[5].ty.v = "NEQ"
    /\ Kind(tokens, 6) = "Number"
    /\ Len(ast) = 1

\* the token kinds of a source written as a sequence of lexemes
Lit(name) == TLiteral(name)
Num1 == TNumber([int |-> <<"1">>, frac |-> <<>>])
Num2 == TNumber([int |-> <<"2">>, frac |-> <<>>])
Num3 == TNumber([int |-> <<"3">>, frac |-> <<>>])
CmpTys(name, num) == <<TOpenParen, Lit(name), TComparator("EQ"), num, TCloseParen>>
CondNode(name, num) ==
    [n |-> "Condition", op |-> "EQ", left |-> [n |-> "Literal", name |-> name],
     right |-> [n |-> "Number", value |-> num.v]]
GroupNode(op, conditions) ==
    [n |-> "ConditionalOperator", op |-> op, conditions |-> conditions]

\* match(&( (&( (a==1) (b==2) )) (c==3) ))
NestedFirstTys ==
    <<TMatch, TOpenParen, TConditionalOperator("AND"), TOpenParen,
      TOpenParen, TConditionalOperator("AND"), TOpenParen>>
        \o CmpTys(<<"a">>, Num1) \o CmpTys(<<"b">>, Num2)
        \o <<TCloseParen, TCloseParen>>
        \o CmpTys(<<"c">>, Num3) \o <<TCloseParen, TCloseParen>>
NestedFirstAst ==
    <<[n |-> "Match", inner |->
        GroupNode("AND", <<GroupNode("AND", <<CondNode(<<"a">>, Num1), CondNode(<<"b">>, Num2)>>),
                           CondNode(<<"c">>, Num3)>>)]>>

\* match(&( (c==3) (&( (a==1) (b==2) )) ))
NestedLastTys ==
    <<TMatch, TOpenParen, TConditionalOperator("AND"), TOpenParen>>
        \o CmpTys(<<"c">>, Num3)
        \o <<TOpenParen, TConditionalOperator("AND"), TOpenParen>>
        \o CmpTys(<<"a">>, Num1) \o CmpTys(<<"b">>, Num2)
        \o <<TCloseParen, TCloseParen, TCloseParen, TCloseParen>>
NestedLastAst ==
    <<[n |-> "Match", inner |->
        GroupNode("AND", <<CondNode(<<"c">>, Num3),
                           GroupNode("AND", <<CondNode(<<"a">>, Num1), CondNode(<<"b">>, Num2)>>)>>)]>>

\* match(|( (&( (a==1) )) (&( (b==2) )) ))
OrOfAndsTys ==
    <<TMatch, TOpenParen, TConditionalOperator("OR"), TOpenParen,
      TOpenParen, TConditionalOperator("AND"), TOpenParen>>
        \o CmpTys(<<"a">>, Num1) \o <<TCloseParen, TCloseParen>>
        \o <<TOpenParen, TConditionalOperator("AND"), TOpenParen>>
        \o CmpTys(<<"b">>, Num2) \o <<TCloseParen, TCloseParen>>
        \o <<TCloseParen, TCloseParen>>
OrOfAndsAst ==
    <<[n |-> "Match", inner |->
        GroupNode("OR", <<GroupNode("AND", <<CondNode(<<"a">>, Num1)>>),
                          GroupNode("AND", <<CondNode(<<"b">>, Num2)>>)>>)]>>

\* C2: a logical group whose siblings include nested logical groups in
\* parentheses, in any position, the first included, parses into the
\* LogicalGroup of the nested groups and conditions in source order, as deep
\* as the groups are nested.
C2_NestedGroupsParse ==
    Returned =>
        /\ TysOf(tokens) = NestedFirstTys => result = OkUnit /\ ast = NestedFirstAst
        /\ TysOf(tokens) = NestedLastTys => result = OkUnit /\ ast = NestedLastAst
        /\ TysOf(tokens) = OrOfAndsTys => result = OkUnit /\ ast = OrOfAndsAst

\* the first Literal or Number leaf of a node, reading left to right
RECURSIVE FirstLeaf(_)
FirstLeaf(node) ==
    CASE node.n = "Match" -> FirstLeaf(node.inner)
      [] node.n = "Condition" -> FirstLeaf(node.left)
      [] node.n = "ConditionalOperator" -> FirstLeaf(node.conditions[1])
      [] OTHER -> node

\* the positions of the Match tokens, and the k-th of them
MatchPositions(t) == {i \in DOMAIN t : Kind(t, i) = "Match"}
NthMatch(t, k) ==
    CHOOSE i \in MatchPositions(t) :
        Cardinality({j \in MatchPositions(t) : j <= i}) = k
\* the first Literal or Number token after position i
FirstOperandAfter(t, i) ==
    t[CHOOSE j \in DOMAIN t :
        /\ j > i
        /\ IsOperand(t, j)
        /\ \A m \in DOMAIN t : (m > i /\ m < j) => ~IsOperand(t, m)]

\* C3: a call is atomic with respect to ast. ast changes only in the step that
\* returns Ok, so a call that returns Err leaves it as it was before the call
\* and no partly built ast is ever stored; the ast stored by a call that
\* returns Ok is made of Match nodes, one per match statement of that call's
\* input, in source order.
C3_ParseIsAtomic ==
    [][/\ ast' # ast => Returns /\ result' = OkUnit
       /\ Returns /\ ~result'.ok => ast' = ast
       /\ Returns /\ result'.ok =>
            /\ Len(ast') = CountKind(tokens, "Match")
            /\ \A k \in DOMAIN ast' :
                 /\ ast'[k].n = "Match"
                 /\ FirstLeaf(ast'[k]) = LeafOf(FirstOperandAfter(tokens, NthMatch(tokens, k)))
      ]_vars

C3_Witness ==
    /\ Returned
    /\ calls = 2
    /\ ~result.ok
    /\ Len(ast) = 2
    /\ nodes # <<>>

\* how many parentheses are open after the first i tokens
OpenDepth(t, i) ==
    Cardinality({j \in 1..i : Kind(t, j) = "OpenParen"})
        - Cardinality({j \in 1..i : Kind(t, j) = "CloseParen"})

\* the parenthesis opened by `match (` is never closed
LacksClosingParen(t) ==
    /\ Len(t) >= 2
    /\ Kind(t, 1) = "Match"
    /\ Kind(t, 2) = "OpenParen"
    /\ \A i \in 2..Len(t) : OpenDepth(t, i) >= 1

\* the three shapes of the claim: match(a == 1   match((a == 1)   match((a == 1
IsMissingCloseShape(t) ==
    \/ Len(t) = 5 /\ Kind(t, 1) = "Match" /\ Kind(t, 2) = "OpenParen" /\ IsComparisonAt(t, 3)
    \/ /\ Len(t) \in {6, 7}
       /\ Kind(t, 1) = "Match"
       /\ Kind(t, 2) = "OpenParen"
       /\ Kind(t, 3) = "OpenParen"
       /\ IsComparisonAt(t, 4)
       /\ Len(t) = 7 => Kind(t, 7) = "CloseParen"

\* C4: an input whose match statement lacks its closing parenthesis is never
\* parsed successfully, and match(a == 1, match((a == 1) and match((a == 1
\* return Err with kind UnmatchedParenthesis or EndOfTokenStream.
C4_MissingCloseFails ==
    Returned =>
        /\ LacksClosingParen(tokens) => ~result.ok
        /\ IsMissingCloseShape(tokens) =>
             /\ ~result.ok
             /\ result.ty \in {"UnmatchedParenthesis", "EndOfTokenStream"}

\* C5: whenever the next token at a top-level statement boundary is anything
\* other than the Match keyword, parse_tokens returns Err with kind Unexpected
\* and the cursor at that token's offset, and not Ok.
C5_TopLevelUnexpected ==
    [][(pc = "parse_tokens" /\ pos < Len(tokens) /\ Kind(tokens, pos + 1) # "Match") =>
          /\ pc' = "done"
          /\ result' = [ok |-> FALSE, ty |-> "Unexpected", cursor |-> tokens[pos + 1].idx]
          /\ ast' = ast
      ]_vars

\* a token after a complete statement was refused at its offset
C5_Witness ==
    /\ Returned
    /\ stack = <<>>
    /\ Len(nodes) = 1
    /\ pos < Len(tokens)
    /\ Kind(tokens, pos + 1) = "CloseParen"
    /\ result = [ok |-> FALSE, ty |-> "Unexpected", cursor |-> tokens[pos + 1].idx]
    /\ result.cursor > 0

\* C6: the inner value of every Match node a successful parse stores in ast is
\* a Condition or a LogicalGroup, never a bare Literal or Number.
C6_MatchInnerIsCondition ==
    \A k \in DOMAIN ast : ast[k].inner.n \in {"Condition", "ConditionalOperator"}

\* match ( OP ( (IDENT CMP X) ... (IDENT CMP X) ) ), one comparison or more
SiblingCount(t) == (Len(t) - 6) \div 5
IsFlatGroupInput(t) ==
    /\ Len(t) >= 11
    /\ (Len(t) - 6) % 5 = 0
    /\ Kind(t, 1) = "Match"
    /\ Kind(t, 2) = "OpenParen"
    /\ Kind(t, 3) = "ConditionalOperator"
    /\ Kind(t, 4) = "OpenParen"
    /\ \A k \in 1..SiblingCount(t) :
         /\ Kind(t, 5 * k) = "OpenParen"
         /\ IsComparisonAt(t, 5 * k + 1)
         /\ Kind(t, 5 * k + 4) = "CloseParen"
    /\ Kind(t, Len(t) - 1) = "CloseParen"
    /\ Kind(t, Len(t)) = "CloseParen"

\* every LogicalGroup in the node has a condition
RECURSIVE GroupsNonEmpty(_)
GroupsNonEmpty(node) ==
    CASE node.n = "Match" -> GroupsNonEmpty(node.inner)
      [] node.n = "Condition" -> GroupsNonEmpty(node.left) /\ GroupsNonEmpty(node.right)
      [] node.n = "ConditionalOperator" ->
            /\ node.conditions # <<>>
            /\ \A k \in DOMAIN node.conditions : GroupsNonEmpty(node.conditions[k])
      [] OTHER -> TRUE

C8_TokenOffsets ==
    [][(pc = "tokenize" /\ Len(tokens') > Len(tokens)) =>
          /\ tokens'[Len(tokens')].idx = ci
          /\ tokens # <<>> => tokens[Len(tokens)].idx <= tokens'[Len(tokens')].idx
      ]_vars

\* C9: only input with balanced parentheses is accepted: whenever a call
\* returns Ok, its tokens hold as many CloseParen as OpenParen.
C9_AcceptedIsBalanced ==
    (Returned /\ result.ok) =>
        CountKind(tokens, "OpenParen") = CountKind(tokens, "CloseParen")

\* C10: parsing always terminates: a call of parse_tokens, on whatever token
\* sequence, eventually returns, and iter never moves back while it runs.
C10_ParsingTerminates ==
    /\ [](pc = "parse_tokens" => <>(pc = "done"))
    /\ [][pc \notin {"new", "done"} => pos' >= pos]_vars

\* the call on the source of main.rs has run through both loops and returned
C10_Witness ==
    /\ Returned
    /\ s = ProgMain
    /\ calls = 1
    /\ pos = Len(tokens)
    /\ pos > 20
    /\ Len(ast) = 1

====
